---- MODULE Spec2Model ----
(***************************************************************************)
(* Model of the job orchestrator of the POORNASREE AI platform             *)
(* (app/services/training_service.py): the TrainingService that creates,   *)
(* starts, runs and cancels training jobs.                                 *)
(*                                                                         *)
(* Scheduling: one asyncio event loop.  A coroutine runs without           *)
(* interruption from one await to the next, so every action below is one   *)
(* such segment.  start_training_job and cancel_training_job contain no    *)
(* await that suspends; _execute_training_job suspends only at             *)
(* `await asyncio.sleep(2)`.                                               *)
(*                                                                         *)
(* Store: `jobs` and `versions` are the committed rows of training_jobs    *)
(* and model_versions.  Attribute writes become durable at the next        *)
(* db.commit(); a commit that raises rolls the session back, so the        *)
(* writes made since the previous commit are discarded.  Store failures    *)
(* are injected in the background task only (parameters `fault` and        *)
(* `hfail`); the foreground calls run against an available store.          *)
(*                                                                         *)
(* The query pipeline of app/services/ai_service.py (process_query,        *)
(* search_similar_documents, generate_ai_response, generate_embeddings)    *)
(* and the batch runs of TrainingService (process_batch,                   *)
(* _execute_batch_processing) are modelled the same way, one action per    *)
(* segment, each under a specification of its own: QuerySpec and           *)
(* QueryFair, EmbedSpec, BatchSpec.  The answers of the vector index, of   *)
(* the embedding model and of the generative model are inputs of the       *)
(* actions; an executor call may also never be answered.                   *)
(*                                                                         *)
(* The endpoints of app/api/training/training.py that check the caller's   *)
(* role are modelled under ApiSpec, several batch runs at once under       *)
(* ConcurrentBatchSpec, the fairly scheduled training task under FairSpec, *)
(* and the OTPManager of app/core/security.py under OtpSpec.               *)
(***************************************************************************)
EXTENDS Integers, Sequences, FiniteSets, TLC

\* ---------------------------------------------------------------- bounds
MaxJobs == 1
MaxDocIds == 2
MaxObjects == 2
MaxEmbedCalls == 2
MaxBatches == 1
MaxConcurrentBatches == 2
MaxClock == 6

\* ------------------------------------------------------------- constants
PENDING == "pending"
RUNNING == "running"
COMPLETED == "completed"
FAILED == "failed"
CANCELLED == "cancelled"
PAUSED == "paused"
TrainingStatusEnum == {PENDING, RUNNING, COMPLETED, FAILED, CANCELLED, PAUSED}

UserRoleEnum == {"customer", "engineer", "admin"}

TrainingTypeEnum == {"full", "incremental", "batch", "real_time"}

Tiers == 1..3

\* The documents table: id |-> knowledge_base_tier.  Read-only for the service.
Documents == [d \in 1..3 |-> d]

\* Ids a caller may put in document_ids: the stored documents and one id
\* that refers to no document.
DocIdInputs == 1..4

\* Faulty variant: the weights of the second and third step are exchanged.
stepsExchanged ==
    << <<"Preparing data", 10>>,
       <<"Generating embeddings", 40>>,
       <<"Training model", 30>>,
       <<"Validating model", 15>>,
       <<"Finalizing", 5>> >>

\* steps of _execute_training_job: (step_name, step_weight)
steps ==
    << <<"Preparing data", 10>>,
       <<"Generating embeddings", 30>>,
       <<"Training model", 40>>,
       <<"Validating model", 15>>,
       <<"Finalizing", 5>> >>

\* ----------------------------------------------------------------- state
VARIABLES
    jobs,         \* committed training_jobs rows; the id is the index
    versions,     \* committed model_versions rows, in insertion order
    active_jobs,  \* keys of TrainingService.active_jobs (job id -> task)
    task,         \* per job id: the background task created for it
    spawned,      \* per job id: number of asyncio.create_task calls made
    last,         \* the operation that produced this state, and its result
    ai,           \* AIService: which of its three clients are set
    query,        \* the process_query call in progress, and its result
    embeddings,   \* the generate_embeddings calls made, and the one suspended
    batch_processors,  \* TrainingService.batch_processors, by batch
    batch_task,   \* per batch: the state of its background task
    response,     \* the HTTP response of the request that produced this state
    otp_storage,  \* OTPManager.otp_storage: identifier -> stored OTP data
    utcnow,       \* datetime.utcnow(), in minutes
    otp_log       \* per identifier: what happened to the OTP generated last

vars == <<jobs, versions, active_jobs, task, spawned, last>>

query_vars == <<ai, query>>

embed_vars == <<embeddings>>

batch_vars == <<batch_processors, batch_task>>

api_vars == <<response>>

otp_vars == <<otp_storage, utcnow, otp_log>>

all_vars == <<vars, query_vars, embed_vars, batch_vars, api_vars, otp_vars>>

JobIds == 1..MaxJobs

Range(s) == {s[i] : i \in DOMAIN s}

Min(a, b) == IF a <= b THEN a ELSE b

Exists(job_id) == job_id \in DOMAIN jobs

\* task[j].pc: "none" (no task was created), "scheduled" (created, not yet
\* run), "sleeping" (suspended in asyncio.sleep of step step_num), and the
\* ways a task ends: "completed", "failed" (the handler recorded the failure),
\* "crashed" (an exception left the handler), "cancelled", "returned" (job
\* row not found).  must_cancel: Task.cancel() was called and the
\* CancelledError is not yet delivered.
NoTask == [pc |-> "none", step_num |-> 0, total_progress |-> 0,
           must_cancel |-> FALSE]

TaskEnded(job_id) ==
    task[job_id].pc \in {"completed", "failed", "crashed", "cancelled", "returned"}

\* AIService._initialize_clients: the three clients are set in order inside
\* one try block, so a failure leaves the later ones None.  The sentence
\* transformer has a try block of its own.
initialize_clients(connect_ok, ready_ok, configure_ok, load_ok) ==
    [ weaviate_client |-> connect_ok,
      genai_model |-> connect_ok /\ ready_ok /\ configure_ok,
      embedding_model |-> connect_ok /\ ready_ok /\ configure_ok /\ load_ok ]

\* query.pc: "idle" (no call), "embedding" (suspended in run_in_executor of
\* embedding_model.encode), "generating" (suspended in run_in_executor of
\* genai_model.generate_content), "returned".  call: the state of the executor
\* call awaited, "pending" or "hung" (the provider will never answer).
\* search: how search_similar_documents ended.  index: the objects the index
\* returned to the search whose result was used.  docs: the list returned by
\* search_similar_documents.  context: the list generate_ai_response received.
\* confidence is in tenths.
NoQuery ==
    [ pc |-> "idle", call |-> "none", user_role |-> "none",
      knowledge_base_tier |-> 0,
      search |-> "none", index |-> << >>, docs |-> << >>,
      synthesizer |-> "none", context |-> << >>, prepared |-> << >>,
      confidence |-> 0, sources |-> << >> ]

\* response: set by the endpoints of app/api/training/training.py that check
\* the caller's role; the steps of background tasks and the calls made on
\* the services directly leave NoResponse.
NoResponse == [endpoint |-> "none", role |-> "none", code |-> 0]

\* embeddings.calls: one record per generate_embeddings call that returned,
\* in order.  embeddings.encoding: the texts handed to the executor and not
\* yet answered (at most one here).
NoEmbeddings == [calls |-> << >>, encoding |-> << >>]

\* The identifiers (e-mail addresses) OTPs are generated for.
Identifiers == {"admin@example.com", "other@example.com"}

\* No entry in otp_storage.
NoOtp == [otp |-> "none", expires_at |-> 0, attempts |-> 0]

\* otp_log[identifier]: generated, whether an OTP was generated; otp and
\* expires_at, those of the OTP generated last; incorrect, the number of
\* verify_otp calls made on it with another code; verified, a call on it
\* returned true; dead, a successful verification, a call after its expiry
\* or a call after three incorrect attempts has taken place.
NoOtpLog == [generated |-> FALSE, otp |-> "none", expires_at |-> 0,
             incorrect |-> 0, verified |-> FALSE, dead |-> FALSE]

JobsInit ==
    /\ jobs = << >>
    /\ versions = << >>
    /\ active_jobs = {}
    /\ task = [j \in JobIds |-> NoTask]
    /\ spawned = [j \in JobIds |-> 0]
    /\ last = [op |-> "init", job |-> 0, ret |-> "none"]
    /\ batch_processors = << >>
    /\ batch_task = << >>
    /\ response = NoResponse
    /\ otp_storage = [identifier \in Identifiers |-> NoOtp]
    /\ utcnow = 0
    /\ otp_log = [identifier \in Identifiers |-> NoOtpLog]

Init ==
    /\ JobsInit
    /\ ai = initialize_clients(TRUE, TRUE, TRUE, TRUE)
    /\ query = NoQuery
    /\ embeddings = NoEmbeddings

\* ------------------------------------------------- create_training_job

\* Faulty variant: the linked documents do not enter the estimate.
EstimateBaseOnly(training_type, document_count) ==
    CASE training_type = "full" -> 60
      [] training_type = "incremental" -> 30
      [] training_type = "batch" -> 45
      [] training_type = "real_time" -> 15
      [] OTHER -> 30

\* base_time.get(training_type, 30) + (document_count * 2)
estimate_training_duration(training_type, document_count) ==
    LET base_time == [t \in TrainingTypeEnum |->
                         CASE t = "full" -> 60
                           [] t = "incremental" -> 30
                           [] t = "batch" -> 45
                           [] t = "real_time" -> 15]
    IN  (IF training_type \in TrainingTypeEnum THEN base_time[training_type] ELSE 30)
        + (document_count * 2)

\* db.query(Document).filter(Document.id.in_(document_ids),
\*                           Document.knowledge_base_tier <= tier).count()
valid_docs(document_ids, knowledge_base_tier) ==
    Cardinality({d \in DOMAIN Documents :
                    /\ d \in Range(document_ids)
                    /\ Documents[d] <= knowledge_base_tier})

\* if document_ids: ... if valid_docs != len(document_ids): raise ValueError
DocumentsRejected(document_ids, knowledge_base_tier) ==
    /\ document_ids # << >>
    /\ valid_docs(document_ids, knowledge_base_tier) # Len(document_ids)

NewJob(training_type, knowledge_base_tier, document_ids) ==
    [ status |-> PENDING,
      training_type |-> training_type,
      knowledge_base_tier |-> knowledge_base_tier,
      estimated_duration_minutes |->
          estimate_training_duration(training_type, Len(document_ids)),
      progress_percentage |-> 0,      \* column default 0.0
      current_step |-> "None",
      total_steps |-> 0,              \* 0 stands for NULL
      started_at |-> FALSE,
      completed_at |-> FALSE,
      final_score |-> 0,              \* 0 stands for NULL
      error_message |-> "None",
      retry_count |-> 0,              \* column default 0
      max_retries |-> 3,              \* column default 3
      documents |-> DOMAIN Documents \cap Range(document_ids) ]

create_training_job(training_type, knowledge_base_tier, document_ids) ==
    /\ Len(jobs) < MaxJobs
    /\ IF DocumentsRejected(document_ids, knowledge_base_tier)
       THEN /\ jobs' = jobs         \* db.rollback(); raise
            /\ last' = [op |-> "create", job |-> 0, ret |-> "ValueError",
                        training_type |-> training_type,
                        knowledge_base_tier |-> knowledge_base_tier,
                        document_ids |-> document_ids]
       ELSE /\ jobs' = Append(jobs, NewJob(training_type, knowledge_base_tier,
                                           document_ids))
            /\ last' = [op |-> "create", job |-> Len(jobs) + 1, ret |-> "ok",
                        training_type |-> training_type,
                        knowledge_base_tier |-> knowledge_base_tier,
                        document_ids |-> document_ids]
    /\ UNCHANGED <<versions, active_jobs, task, spawned>>

\* -------------------------------------------------- start_training_job

\* Faulty variant: the status test of start_training_job is missing.
StartAllowedAnyStatus(job_id) == Exists(job_id)

\* `if not job: raise` and `if job.status != PENDING: raise`
StartAllowed(job_id) ==
    /\ Exists(job_id)
    /\ jobs[job_id].status = PENDING

\* Faulty variant: the start time is not recorded.
StartWriteNoTime(job) ==
    [job EXCEPT !.status = RUNNING,
                !.current_step = "Initializing training",
                !.progress_percentage = 0]

\* job.status = RUNNING; started_at; current_step; progress_percentage = 0.0
StartWrite(job) ==
    [job EXCEPT !.status = RUNNING,
                !.started_at = TRUE,
                !.current_step = "Initializing training",
                !.progress_percentage = 0]

start_training_job(job_id) ==
    IF StartAllowed(job_id)
    THEN /\ jobs' = [jobs EXCEPT ![job_id] = StartWrite(@)]
         /\ active_jobs' = active_jobs \cup {job_id}
         /\ task' = [task EXCEPT ![job_id] =
                        [pc |-> "scheduled", step_num |-> 0, total_progress |-> 0,
                         must_cancel |-> FALSE]]
         /\ spawned' = [spawned EXCEPT ![job_id] = @ + 1]
         /\ last' = [op |-> "start", job |-> job_id, ret |-> "true"]
         /\ UNCHANGED versions
    ELSE /\ last' = [op |-> "start", job |-> job_id, ret |-> "false"]
         /\ UNCHANGED <<jobs, versions, active_jobs, task, spawned>>

\* ------------------------------------------------- cancel_training_job

\* Faulty variant: cancel accepts every job that has been started.
CancelAllowedNotPending(job_id) ==
    /\ Exists(job_id)
    /\ jobs[job_id].status # PENDING

\* Faulty variant: cancel accepts every job that exists.
CancelAllowedAnyStatus(job_id) == Exists(job_id)

\* `if not job: return False` and `if job.status == RUNNING:`
CancelAllowed(job_id) ==
    /\ Exists(job_id)
    /\ jobs[job_id].status = RUNNING

\* Faulty variant: the task handle is dropped from the registry without being
\* cancelled.
CancelTaskForgotten(t) == t

\* self.active_jobs[job_id].cancel(): the CancelledError is thrown into the
\* coroutine when the task next runs.
CancelTask(t) == [t EXCEPT !.must_cancel = TRUE]

\* Faulty variant: the cancellation records no completion time.
CancelWriteNoTime(job) ==
    [job EXCEPT !.status = CANCELLED]

\* Faulty variant: the cancelled job is left RUNNING.
CancelWriteStillRunning(job) ==
    [job EXCEPT !.completed_at = TRUE]

\* job.status = CANCELLED; job.completed_at = datetime.utcnow()
CancelWrite(job) ==
    [job EXCEPT !.status = CANCELLED,
                !.completed_at = TRUE]

cancel_training_job(job_id) ==
    IF CancelAllowed(job_id)
    THEN /\ jobs' = [jobs EXCEPT ![job_id] = CancelWrite(@)]
         /\ IF job_id \in active_jobs
            THEN /\ task' = [task EXCEPT ![job_id] = CancelTask(@)]
                 /\ active_jobs' = active_jobs \ {job_id}
            ELSE UNCHANGED <<task, active_jobs>>
         /\ last' = [op |-> "cancel", job |-> job_id, ret |-> "true"]
         /\ UNCHANGED <<versions, spawned>>
    ELSE /\ last' = [op |-> "cancel", job |-> job_id, ret |-> "false"]
         /\ UNCHANGED <<jobs, versions, active_jobs, task, spawned>>

\* ------------------------------------------------ _execute_training_job

\* Exceptions seen by the task: a store failure (raised by db.query or
\* db.commit), the UnboundLocalError of using `job` in the handler before it
\* was assigned, and asyncio's CancelledError.
OperationalError == "OperationalError"
CancelledError == "CancelledError"

\* Faulty variant: a handler that also catches the cancellation, as a bare
\* `except:` or `except BaseException` would.
CaughtByHandlerAll(exc) == TRUE

\* `except Exception as e`: CancelledError derives from BaseException and is
\* not caught.
CaughtByHandler(exc) == exc # CancelledError

\* job.final_score = 0.85 + (0.1 * (job.knowledge_base_tier / 3)), in 1/1000
final_score(knowledge_base_tier) == 850 + (100 * knowledge_base_tier) \div 3

\* Faulty variant: the step's first write stores the step's own weight
\* instead of the accumulated total.
StepStartWriteWeight(job, step_num, total_progress) ==
    [job EXCEPT !.current_step = steps[step_num][1],
                !.progress_percentage = steps[step_num][2]]

\* job.current_step = step_name; job.progress_percentage = total_progress
StepStartWrite(job, step_num, total_progress) ==
    [job EXCEPT !.current_step = steps[step_num][1],
                !.progress_percentage = total_progress]

\* job.progress_percentage = min(total_progress, 100)
StepEndWrite(job, total_progress) ==
    [job EXCEPT !.progress_percentage = Min(total_progress, 100)]

\* Faulty variant: the completion leaves the percentage where the last step
\* put it and records no score.
CompletedWriteStatusOnly(job) ==
    [job EXCEPT !.status = COMPLETED,
                !.completed_at = TRUE]

\* job.status = COMPLETED; completed_at; progress_percentage = 100.0; final_score
CompletedWrite(job) ==
    [job EXCEPT !.status = COMPLETED,
                !.completed_at = TRUE,
                !.progress_percentage = 100,
                !.final_score = final_score(job.knowledge_base_tier)]

\* ModelVersion(training_job_id=job.id, knowledge_base_tier=..., ...)
ModelVersion(job_id, job) ==
    [ training_job_id |-> job_id,
      version_number |-> <<job.knowledge_base_tier, job_id, 0>>,
      knowledge_base_tier |-> job.knowledge_base_tier,
      accuracy_score |-> job.final_score,
      is_active |-> TRUE ]

\* Faulty variant: the failure handler counts the failure as a retry.
FailedWriteCountsRetry(job, e) ==
    [job EXCEPT !.status = FAILED,
                !.error_message = e,
                !.completed_at = TRUE,
                !.retry_count = @ + 1]

\* job.status = FAILED; job.error_message = str(e); job.completed_at = utcnow()
FailedWrite(job, e) ==
    [job EXCEPT !.status = FAILED,
                !.error_message = e,
                !.completed_at = TRUE]

\* Faulty variant: the task ends without removing its handle.
FinallyKeepsHandle(job_id) == active_jobs' = active_jobs

\* finally: if job_id in self.active_jobs: del self.active_jobs[job_id]
Finally(job_id) == active_jobs' = active_jobs \ {job_id}

\* The task ends in the way `how`, in (or, for 0, before) step step_num.
EndTask(job_id, how, step_num) ==
    /\ task' = [task EXCEPT ![job_id] =
                   [@ EXCEPT !.pc = how, !.step_num = step_num]]
    /\ last' = [op |-> "task", job |-> job_id, ret |-> how]

\* The except block, entered from step step_num with the durable row
\* `committed` (what the commits of this segment had made durable before the
\* exception), followed by the finally block.  hfail: the handler's own
\* db.commit() raises, and the exception leaves the task.
Handler(job_id, committed, e, step_num, hfail) ==
    /\ IF hfail
       THEN /\ jobs' = [jobs EXCEPT ![job_id] = committed]
            /\ EndTask(job_id, "crashed", step_num)
       ELSE /\ jobs' = [jobs EXCEPT ![job_id] = FailedWrite(committed, e)]
            /\ EndTask(job_id, "failed", step_num)
    /\ Finally(job_id)

TaskRunnable(job_id) ==
    /\ job_id \in JobIds
    /\ ~task[job_id].must_cancel

\* First segment: from the start of the coroutine to the sleep of step 1.
\* fault: "query" (line 123 raises), "commit" (line 142 raises) or "none".
execute_first_segment(job_id, fault, hfail) ==
    /\ TaskRunnable(job_id)
    /\ task[job_id].pc = "scheduled"
    /\ fault \in {"none", "query", "commit"}
    /\ UNCHANGED <<versions, spawned>>
    /\ IF fault = "query"
       THEN \* the handler runs with `job` unbound: job.status = ... raises
            /\ EndTask(job_id, "crashed", 0)
            /\ Finally(job_id)
            /\ UNCHANGED jobs
       ELSE IF ~Exists(job_id)
       THEN \* if not job: return
            /\ EndTask(job_id, "returned", 0)
            /\ Finally(job_id)
            /\ UNCHANGED jobs
       ELSE IF fault = "commit"
       THEN Handler(job_id, jobs[job_id], OperationalError, 1, hfail)
       ELSE /\ jobs' = [jobs EXCEPT ![job_id] =
                           StepStartWrite([@ EXCEPT !.total_steps = Len(steps)],
                                          1, 0)]
            /\ task' = [task EXCEPT ![job_id] =
                           [@ EXCEPT !.pc = "sleeping", !.step_num = 1,
                                     !.total_progress = 0]]
            /\ last' = [op |-> "task", job |-> job_id, ret |-> "sleeping"]
            /\ UNCHANGED active_jobs

\* A segment between two sleeps: the end of step step_num and the start of
\* the next.  fault: "commit1" (line 152 raises), "commit2" (line 142
\* raises) or "none".
execute_step_segment(job_id, fault, hfail) ==
    /\ TaskRunnable(job_id)
    /\ task[job_id].pc = "sleeping"
    /\ task[job_id].step_num < Len(steps)
    /\ fault \in {"none", "commit1", "commit2"}
    /\ UNCHANGED <<versions, spawned>>
    /\ LET k == task[job_id].step_num
           total == task[job_id].total_progress + steps[k][2]
           ended == StepEndWrite(jobs[job_id], total)
       IN  IF fault = "commit1"
           THEN Handler(job_id, jobs[job_id], OperationalError, k, hfail)
           ELSE IF fault = "commit2"
           THEN Handler(job_id, ended, OperationalError, k + 1, hfail)
           ELSE /\ jobs' = [jobs EXCEPT ![job_id] =
                               StepStartWrite(ended, k + 1, total)]
                /\ task' = [task EXCEPT ![job_id] =
                               [@ EXCEPT !.step_num = k + 1,
                                         !.total_progress = total]]
                /\ last' = [op |-> "task", job |-> job_id, ret |-> "sleeping"]
                /\ UNCHANGED active_jobs

\* Last segment: the end of the last step and the completion.  fault:
\* "commit1" (line 152 raises), "commit2" (line 182 raises) or "none".
execute_last_segment(job_id, fault, hfail) ==
    /\ TaskRunnable(job_id)
    /\ task[job_id].pc = "sleeping"
    /\ task[job_id].step_num = Len(steps)
    /\ fault \in {"none", "commit1", "commit2"}
    /\ UNCHANGED spawned
    /\ LET k == task[job_id].step_num
           total == task[job_id].total_progress + steps[k][2]
           ended == StepEndWrite(jobs[job_id], total)
           completed == CompletedWrite(ended)
       IN  IF fault = "commit1"
           THEN Handler(job_id, jobs[job_id], OperationalError, k, hfail)
                /\ UNCHANGED versions
           ELSE IF fault = "commit2"
           THEN \* the rollback discards the pending ModelVersion too
                Handler(job_id, ended, OperationalError, k, hfail)
                /\ UNCHANGED versions
           ELSE /\ jobs' = [jobs EXCEPT ![job_id] = completed]
                /\ versions' = Append(versions, ModelVersion(job_id, completed))
                /\ EndTask(job_id, "completed", k)
                /\ Finally(job_id)

\* Delivery of the CancelledError requested by Task.cancel().  A task that
\* has not run yet ends without executing any of the coroutine; a sleeping
\* task gets the exception at `await asyncio.sleep(2)`, inside the try.
execute_cancelled(job_id) ==
    /\ job_id \in JobIds
    /\ task[job_id].must_cancel
    /\ task[job_id].pc \in {"scheduled", "sleeping"}
    /\ UNCHANGED <<versions, spawned>>
    /\ IF task[job_id].pc = "sleeping" /\ CaughtByHandler(CancelledError)
       THEN /\ jobs' = [jobs EXCEPT ![job_id] = FailedWrite(@, CancelledError)]
            /\ task' = [task EXCEPT ![job_id] =
                           [@ EXCEPT !.pc = "failed", !.must_cancel = FALSE]]
            /\ last' = [op |-> "task", job |-> job_id, ret |-> "failed"]
            /\ Finally(job_id)
       ELSE /\ task' = [task EXCEPT ![job_id] =
                           [@ EXCEPT !.pc = "cancelled", !.must_cancel = FALSE]]
            /\ last' = [op |-> "task", job |-> job_id, ret |-> "cancelled"]
            /\ IF task[job_id].pc = "sleeping"
               THEN Finally(job_id)
               ELSE UNCHANGED active_jobs
            /\ UNCHANGED jobs

\* ------------------------------------------------------- specification

DocIdLists ==
    UNION {[1..n -> DocIdInputs] : n \in 0..MaxDocIds}

FaultFlags == BOOLEAN

AllJobIds == 1..(MaxJobs + 1)

\* The life cycle does not depend on the training type or on the linked
\* documents: Spec creates jobs of one type, of every tier, with one
\* accessible document or a missing one.  CreateSpec below explores
\* create_training_job over all its inputs.
Create ==
    /\ \E training_type \in {"incremental"}, tier \in Tiers,
          document_ids \in {<<1>>, <<4>>} :
           create_training_job(training_type, tier, document_ids)
    /\ UNCHANGED <<query_vars, embed_vars, batch_vars, api_vars, otp_vars>>

Start ==
    /\ \E job_id \in AllJobIds : start_training_job(job_id)
    /\ UNCHANGED <<query_vars, embed_vars, batch_vars, api_vars, otp_vars>>

Cancel ==
    /\ \E job_id \in AllJobIds : cancel_training_job(job_id)
    /\ UNCHANGED <<query_vars, embed_vars, batch_vars, api_vars, otp_vars>>

FirstSegment ==
    /\ \E job_id \in JobIds, fault \in {"none", "query", "commit"},
          hfail \in FaultFlags :
           execute_first_segment(job_id, fault, hfail)
    /\ UNCHANGED <<query_vars, embed_vars, batch_vars, api_vars, otp_vars>>

StepSegment ==
    /\ \E job_id \in JobIds, fault \in {"none", "commit1", "commit2"},
          hfail \in FaultFlags :
           execute_step_segment(job_id, fault, hfail)
    /\ UNCHANGED <<query_vars, embed_vars, batch_vars, api_vars, otp_vars>>

LastSegment ==
    /\ \E job_id \in JobIds, fault \in {"none", "commit1", "commit2"},
          hfail \in FaultFlags :
           execute_last_segment(job_id, fault, hfail)
    /\ UNCHANGED <<query_vars, embed_vars, batch_vars, api_vars, otp_vars>>

Cancelled ==
    /\ \E job_id \in JobIds : execute_cancelled(job_id)
    /\ UNCHANGED <<query_vars, embed_vars, batch_vars, api_vars, otp_vars>>

Next ==
    \/ Create
    \/ Start
    \/ Cancel
    \/ FirstSegment
    \/ StepSegment
    \/ LastSegment
    \/ Cancelled

Spec == Init /\ [][Next]_all_vars

\* The event loop runs every task that is ready: a task that was created, or
\* whose sleep is over, or that has a cancellation to receive, is resumed.
FairSpec ==
    /\ Spec
    /\ WF_all_vars(FirstSegment)
    /\ WF_all_vars(StepSegment)
    /\ WF_all_vars(LastSegment)
    /\ WF_all_vars(Cancelled)

\* create_training_job alone, over every training type, tier and list of
\* document ids of at most MaxDocIds entries (duplicates included).
CreateAny ==
    /\ \E training_type \in TrainingTypeEnum, tier \in Tiers,
          document_ids \in DocIdLists :
           create_training_job(training_type, tier, document_ids)
    /\ UNCHANGED <<query_vars, embed_vars, batch_vars, api_vars, otp_vars>>

CreateSpec == Init /\ [][CreateAny]_all_vars

\* ------------------------------------------------------- query pipeline

\* process_query: search_similar_documents(query, knowledge_base_tier, limit=5)
Limit == 5

\* Distances the index reports, in tenths: a cosine distance lies in 0 .. 2.
Distances == {0, 3, 10, 15}

Take(s, n) == SubSeq(s, 1, Min(n, Len(s)))

\* The lists near_vector can return: at most MaxObjects objects, nearest
\* first, each tagged with the tier it was stored with.
ObjectLists ==
    UNION {{[i \in 1..n |-> [doc_id |-> i,
                             knowledge_base_tier |-> f[i][1],
                             distance |-> f[i][2]]] :
               f \in {g \in [1..n -> Tiers \X Distances] :
                         \A i \in 1..(n - 1) : g[i][2] <= g[i + 1][2]}} :
           n \in 0..MaxObjects}

\* What the two near_vector calls of one search do: the first returns, or
\* the first raises and the retry returns, or both raise.
SearchOutcomes ==
    {[first |-> "ok", retry |-> "none", objects |-> o] : o \in ObjectLists}
    \cup {[first |-> "raise", retry |-> "ok", objects |-> o] : o \in ObjectLists}
    \cup {[first |-> "raise", retry |-> "raise", objects |-> << >>]}

\* role_to_tier.get(user_role, KnowledgeBaseTierEnum.CUSTOMER)
determine_knowledge_base_tier(user_role) ==
    CASE user_role = "customer" -> 1
      [] user_role = "engineer" -> 2
      [] user_role = "admin" -> 3
      [] OTHER -> 1

\* Faulty variant: only the objects of exactly the caller's tier are kept.
filter_results_own_tier(all_results, knowledge_base_tier, limit) ==
    Take(SelectSeq(all_results,
                   LAMBDA obj : obj.knowledge_base_tier = knowledge_base_tier),
         limit)

\* for obj in all_results: if tier <= knowledge_base_tier: append; [:limit]
filter_results(all_results, knowledge_base_tier, limit) ==
    Take(SelectSeq(all_results,
                   LAMBDA obj : obj.knowledge_base_tier <= knowledge_base_tier),
         limit)

\* 1.0 - obj.metadata.distance if obj.metadata.distance else 0.5
\* (a distance of 0.0 is falsy), in tenths.
relevance_score(distance) ==
    IF distance # 0 THEN 10 - distance ELSE 5

format_results(filtered_results) ==
    [i \in DOMAIN filtered_results |->
        [doc_id |-> filtered_results[i].doc_id,
         relevance_score |-> relevance_score(filtered_results[i].distance)]]

\* search_similar_documents when the client is None, is not ready, or
\* is_ready() raises: `return []`.
SearchUnavailable(q, how) == [q EXCEPT !.search = how, !.docs = << >>]

\* search_similar_documents from the first near_vector call on.
Searched(q, out) ==
    IF out.first = "ok"
    THEN [q EXCEPT !.search = "filtered",
                   !.index = out.objects,
                   !.docs = format_results(
                       filter_results(out.objects, q.knowledge_base_tier, Limit))]
    ELSE IF out.retry = "ok"
    THEN [q EXCEPT !.search = "unfiltered",     \* result.objects[:limit]
                   !.index = out.objects,
                   !.docs = format_results(Take(out.objects, Limit))]
    ELSE [q EXCEPT !.search = "raised", !.docs = << >>]

\* Faulty variant: the failure response carries the prepared sources.
GenerateFailedWithSources(q) ==
    [q EXCEPT !.pc = "returned", !.call = "none", !.synthesizer = "raised",
              !.confidence = 1, !.sources = q.prepared]

\* except Exception: confidence 0.1, sources []
GenerateFailed(q) ==
    [q EXCEPT !.pc = "returned", !.call = "none", !.synthesizer = "raised",
              !.confidence = 1, !.sources = << >>]

\* Faulty variant: only the nearest chunk is reported as a source.
GenerateSucceededFirstSource(q) ==
    [q EXCEPT !.pc = "returned", !.call = "none", !.synthesizer = "ok",
              !.confidence = 8, !.sources = Take(q.prepared, 1)]

\* return {confidence 0.8, sources}
GenerateSucceeded(q) ==
    [q EXCEPT !.pc = "returned", !.call = "none", !.synthesizer = "ok",
              !.confidence = 8, !.sources = q.prepared]

\* generate_ai_response up to its await: the fallback response when
\* genai_model is None, else the sources are prepared from the context
\* documents, in their order, and generate_content is handed to the executor.
generate_ai_response(q, hang) ==
    IF ~ai.genai_model
    THEN [q EXCEPT !.pc = "returned", !.synthesizer = "unavailable",
                   !.context = q.docs,
                   !.confidence = 3, !.sources = << >>]
    ELSE [q EXCEPT !.pc = "generating",
                   !.call = IF hang THEN "hung" ELSE "pending",
                   !.context = q.docs,
                   !.prepared = [i \in DOMAIN q.docs |->
                       [document_id |-> q.docs[i].doc_id,
                        relevance_score |-> q.docs[i].relevance_score]]]

\* process_query from the call to its first suspension.  ready is what
\* weaviate_client.is_ready() does.  With no embedding model the hash
\* embedding is computed in place and the search runs in the same segment.
\* Neither callee lets an Exception out, so the except block of
\* process_query (confidence 0.0) is never entered.
process_query(user_role, knowledge_base_tier, ready, out, hang) ==
    /\ query.pc = "idle"
    /\ LET q == [NoQuery EXCEPT !.user_role = user_role,
                                !.knowledge_base_tier = knowledge_base_tier]
       IN  query' =
             IF ~ai.weaviate_client
             THEN generate_ai_response(SearchUnavailable(q, "absent"), hang)
             ELSE IF ready = "false"
             THEN generate_ai_response(SearchUnavailable(q, "not_ready"), hang)
             ELSE IF ready = "raise"
             THEN generate_ai_response(SearchUnavailable(q, "ready_raised"), hang)
             ELSE IF ai.embedding_model
             THEN [q EXCEPT !.pc = "embedding",
                            !.call = IF hang THEN "hung" ELSE "pending"]
             ELSE generate_ai_response(Searched(q, out), hang)
    /\ UNCHANGED ai

\* embedding_model.encode returns, or raises and the zero vector is used:
\* either way the search goes on.
embeddings_return(out, hang) ==
    /\ query.pc = "embedding"
    /\ query.call = "pending"
    /\ query' = generate_ai_response(
                    Searched([query EXCEPT !.call = "none"], out), hang)
    /\ UNCHANGED ai

\* genai_model.generate_content returns or raises.
generate_return(ok) ==
    /\ query.pc = "generating"
    /\ query.call = "pending"
    /\ query' = IF ok THEN GenerateSucceeded(query) ELSE GenerateFailed(query)
    /\ UNCHANGED ai

\* The endpoint builds its QueryResponse from the result; the call is over.
respond ==
    /\ query.pc = "returned"
    /\ query' = NoQuery
    /\ UNCHANGED ai

\* The guards of Ask and EmbeddingsReturn repeat those of the operations, so
\* that the index answers are enumerated only where a search can run.
Ask ==
    /\ query.pc = "idle"
    /\ \E user_role \in UserRoleEnum, ready \in {"true", "false", "raise"},
          out \in SearchOutcomes, hang \in BOOLEAN :
           process_query(user_role, determine_knowledge_base_tier(user_role),
                         ready, out, hang)
    /\ UNCHANGED <<vars, embed_vars, batch_vars, api_vars, otp_vars>>

EmbeddingsReturn ==
    /\ query.pc = "embedding"
    /\ \E out \in SearchOutcomes, hang \in BOOLEAN :
           embeddings_return(out, hang)
    /\ UNCHANGED <<vars, embed_vars, batch_vars, api_vars, otp_vars>>

GenerateReturn ==
    /\ \E ok \in BOOLEAN : generate_return(ok)
    /\ UNCHANGED <<vars, embed_vars, batch_vars, api_vars, otp_vars>>

Respond ==
    /\ respond
    /\ UNCHANGED <<vars, embed_vars, batch_vars, api_vars, otp_vars>>

QueryInit ==
    /\ JobsInit
    /\ \E connect_ok \in BOOLEAN, ready_ok \in BOOLEAN,
          configure_ok \in BOOLEAN, load_ok \in BOOLEAN :
           ai = initialize_clients(connect_ok, ready_ok, configure_ok, load_ok)
    /\ query = NoQuery
    /\ embeddings = NoEmbeddings

QueryNext ==
    \/ Ask
    \/ EmbeddingsReturn
    \/ GenerateReturn
    \/ Respond

QuerySpec == QueryInit /\ [][QueryNext]_all_vars

\* An executor call that is pending does return; one that hangs never does.
QueryFair ==
    /\ QuerySpec
    /\ WF_all_vars(EmbeddingsReturn)
    /\ WF_all_vars(GenerateReturn)
    /\ WF_all_vars(Respond)


\* ---------------------------------------------------- generate_embeddings

\* Convert to 384-dimensional vector (matching sentence transformer)
Dimension == 384

Texts == {"pump", "valve", "how to fix pump", ""}

\* hashlib.md5(text.encode()).hexdigest(), as the values of its 32 hex digits.
md5_hexdigest(text) ==
    CASE text = "pump" ->               \* cf82720db122ae41719df5b05503b749
           <<12, 15, 8, 2, 7, 2, 0, 13, 11, 1, 2, 2, 10, 14, 4, 1,
             7, 1, 9, 13, 15, 5, 11, 0, 5, 5, 0, 3, 11, 7, 4, 9>>
      [] text = "valve" ->              \* 9b9a07fe989f85da44271253fd6f9e1a
           <<9, 11, 9, 10, 0, 7, 15, 14, 9, 8, 9, 15, 8, 5, 13, 10,
             4, 4, 2, 7, 1, 2, 5, 3, 15, 13, 6, 15, 9, 14, 1, 10>>
      [] text = "how to fix pump" ->    \* 7998b66617109eb1618745c104a889ce
           <<7, 9, 9, 8, 11, 6, 6, 6, 1, 7, 1, 0, 9, 14, 11, 1,
             6, 1, 8, 7, 4, 5, 12, 1, 0, 4, 10, 8, 8, 9, 12, 14>>
      [] text = "" ->                   \* d41d8cd98f00b204e9800998ecf8427e
           <<13, 4, 1, 13, 8, 12, 13, 9, 8, 15, 0, 0, 11, 2, 0, 4,
             14, 9, 8, 0, 0, 9, 9, 8, 14, 12, 15, 8, 4, 2, 7, 14>>

\* Faulty variant: the digest bytes are not padded.
HashEmbeddingUnpadded(text) ==
    LET text_hash == md5_hexdigest(text)
    IN  [k \in 1..(Len(text_hash) \div 2) |->
            16 * text_hash[2 * k - 1] + text_hash[2 * k]]

\* [float(int(text_hash[i:i+2], 16)) / 255.0 for i in range(0, 32, 2)],
\* extended with 0.0 up to 384 entries, then [:384].  Entries are in 255ths.
hash_embedding(text) ==
    LET text_hash == md5_hexdigest(text)
        embedding == [k \in 1..(Len(text_hash) \div 2) |->
                         16 * text_hash[2 * k - 1] + text_hash[2 * k]]
        padding == [k \in 1..(Dimension - Len(embedding)) |-> 0]
    IN  Take(embedding \o padding, Dimension)

\* return [0.0] * 384
zero_embedding == [k \in 1..Dimension |-> 0]

\* generate_embeddings up to its await: without an embedding model the hash
\* embedding is returned at once, else encode is handed to the executor.
generate_embeddings(text) ==
    /\ Len(embeddings.calls) < MaxEmbedCalls
    /\ embeddings.encoding = << >>
    /\ IF ~ai.embedding_model
       THEN embeddings' = [embeddings EXCEPT !.calls =
                Append(@, [text |-> text, path |-> "hash",
                           embedding |-> hash_embedding(text)])]
       ELSE embeddings' = [embeddings EXCEPT !.encoding = <<text>>]
    /\ UNCHANGED <<ai, query>>

\* encode returns the model's vector, which this model does not compute, or
\* raises and the zero vector is returned.
encode_return(ok) ==
    /\ embeddings.encoding # << >>
    /\ LET text == embeddings.encoding[1]
       IN  embeddings' =
             [calls |-> Append(embeddings.calls,
                  IF ok
                  THEN [text |-> text, path |-> "model", embedding |-> << >>]
                  ELSE [text |-> text, path |-> "zero",
                        embedding |-> zero_embedding]),
              encoding |-> << >>]
    /\ UNCHANGED <<ai, query>>

Embed ==
    /\ \E text \in Texts : generate_embeddings(text)
    /\ UNCHANGED <<vars, batch_vars, api_vars, otp_vars>>

EncodeReturn ==
    /\ \E ok \in BOOLEAN : encode_return(ok)
    /\ UNCHANGED <<vars, batch_vars, api_vars, otp_vars>>

EmbedNext ==
    \/ Embed
    \/ EncodeReturn

EmbedSpec == QueryInit /\ [][EmbedNext]_all_vars


\* ------------------------------------------------------ batch processing

\* BatchProcessRequest.document_ids has min_length=1.
BatchDocIdLists == DocIdLists \ {<< >>}

\* db.query(Document).filter(Document.id.in_(document_ids),
\*                           Document.knowledge_base_tier <= tier).all()
batch_documents(document_ids, knowledge_base_tier) ==
    {d \in DOMAIN Documents :
        /\ d \in Range(document_ids)
        /\ Documents[d] <= knowledge_base_tier}

\* progress_percentage is kept as an exact fraction <<numerator, denominator>>.
NewBatch(documents) ==
    [ status |-> "processing",
      total_documents |-> Cardinality(documents),
      processed_documents |-> 0,
      progress_percentage |-> <<0, 1>>,
      completed_at |-> FALSE,
      error |-> FALSE ]

\* process_batch: the batch id carries a uuid, so every accepted call makes a
\* new entry; ids are numbered in order of creation here.  max_batches caps
\* the number of entries a behaviour may create.
process_batch_upto(max_batches, document_ids, knowledge_base_tier) ==
    /\ Len(batch_processors) < max_batches
    /\ LET documents == batch_documents(document_ids, knowledge_base_tier)
       IN  IF Cardinality(documents) # Len(document_ids)
           THEN /\ last' = [op |-> "process_batch", job |-> 0, batch |-> 0,
                            ret |-> "ValueError",
                            document_ids |-> document_ids,
                            knowledge_base_tier |-> knowledge_base_tier]
                /\ UNCHANGED <<batch_processors, batch_task>>
           ELSE /\ batch_processors' = Append(batch_processors, NewBatch(documents))
                /\ batch_task' = Append(batch_task,
                       [pc |-> "scheduled", i |-> 0, documents |-> documents])
                /\ last' = [op |-> "process_batch", job |-> 0,
                            batch |-> Len(batch_processors) + 1,
                            ret |-> "ok",
                            document_ids |-> document_ids,
                            knowledge_base_tier |-> knowledge_base_tier]
    /\ UNCHANGED <<jobs, versions, active_jobs, task, spawned>>

process_batch(document_ids, knowledge_base_tier) ==
    process_batch_upto(MaxBatches, document_ids, knowledge_base_tier)

\* Faulty variant: the count is written as i instead of i + 1.
BatchProgressWriteCountLagging(batch_info, i, documents) ==
    [batch_info EXCEPT !.processed_documents = i,
                       !.progress_percentage =
                           <<(i + 1) * 100, Cardinality(documents)>>]

\* Faulty variant: the percentage is computed from i instead of i + 1.
BatchProgressWriteLagging(batch_info, i, documents) ==
    [batch_info EXCEPT !.processed_documents = i + 1,
                       !.progress_percentage = <<i * 100, Cardinality(documents)>>]

\* batch_info["processed_documents"] = i + 1
\* batch_info["progress_percentage"] = ((i + 1) / len(documents)) * 100
BatchProgressWrite(batch_info, i, documents) ==
    [batch_info EXCEPT !.processed_documents = i + 1,
                       !.progress_percentage =
                           <<(i + 1) * 100, Cardinality(documents)>>]

\* Faulty variant: the completion clears the count of processed documents.
BatchCompletedWriteCountReset(batch_info) ==
    [batch_info EXCEPT !.status = "completed",
                       !.processed_documents = 0,
                       !.progress_percentage = <<100, 1>>,
                       !.completed_at = TRUE]

\* status completed, progress_percentage 100.0, completed_at
BatchCompletedWrite(batch_info) ==
    [batch_info EXCEPT !.status = "completed",
                       !.progress_percentage = <<100, 1>>,
                       !.completed_at = TRUE]

\* Faulty variant: a failure resets the progress of the batch.
BatchFailedWriteReset(batch_info) ==
    [batch_info EXCEPT !.status = "failed", !.error = TRUE,
                       !.processed_documents = 0,
                       !.progress_percentage = <<0, 1>>]

\* except Exception: status failed, error
BatchFailedWrite(batch_info) ==
    [batch_info EXCEPT !.status = "failed", !.error = TRUE]

\* _execute_batch_processing from its start to the first asyncio.sleep(1).
execute_batch_start(batch_id) ==
    /\ batch_id \in DOMAIN batch_task
    /\ batch_task[batch_id].pc = "scheduled"
    /\ IF batch_task[batch_id].documents = {}
       THEN /\ batch_processors' = [batch_processors EXCEPT ![batch_id] =
                                       BatchCompletedWrite(@)]
            /\ batch_task' = [batch_task EXCEPT ![batch_id].pc = "completed"]
       ELSE /\ batch_task' = [batch_task EXCEPT ![batch_id].pc = "sleeping"]
            /\ UNCHANGED batch_processors
    /\ last' = [op |-> "batch_task", job |-> 0, batch |-> batch_id,
                ret |-> "started"]
    /\ UNCHANGED <<jobs, versions, active_jobs, task, spawned>>

\* From the return of asyncio.sleep(1) for document i to the next sleep, or
\* to the end after the last document.  fails: processing the document raises.
execute_batch_document(batch_id, fails) ==
    /\ batch_id \in DOMAIN batch_task
    /\ batch_task[batch_id].pc = "sleeping"
    /\ LET i == batch_task[batch_id].i
           documents == batch_task[batch_id].documents
       IN  IF fails
           THEN /\ batch_processors' = [batch_processors EXCEPT ![batch_id] =
                                           BatchFailedWrite(@)]
                /\ batch_task' = [batch_task EXCEPT ![batch_id].pc = "failed"]
                /\ last' = [op |-> "batch_task", job |-> 0, batch |-> batch_id,
                            ret |-> "failed"]
           ELSE IF i + 1 < Cardinality(documents)
           THEN /\ batch_processors' = [batch_processors EXCEPT ![batch_id] =
                                           BatchProgressWrite(@, i, documents)]
                /\ batch_task' = [batch_task EXCEPT ![batch_id].i = i + 1]
                /\ last' = [op |-> "batch_task", job |-> 0, batch |-> batch_id,
                            ret |-> "processed"]
           ELSE /\ batch_processors' = [batch_processors EXCEPT ![batch_id] =
                       BatchCompletedWrite(BatchProgressWrite(@, i, documents))]
                /\ batch_task' = [batch_task EXCEPT ![batch_id] =
                                     [@ EXCEPT !.pc = "completed", !.i = i + 1]]
                /\ last' = [op |-> "batch_task", job |-> 0, batch |-> batch_id,
                            ret |-> "completed"]
    /\ UNCHANGED <<jobs, versions, active_jobs, task, spawned>>

\* Faulty variant: an entry is found only while its batch is processing.
BatchFoundWhileProcessing(batch_id) ==
    /\ batch_id \in DOMAIN batch_processors
    /\ batch_processors[batch_id].status = "processing"

\* Entries are added by process_batch and never removed.
BatchFound(batch_id) == batch_id \in DOMAIN batch_processors

\* self.batch_processors.get(batch_id): the entry, or None
get_batch_status(batch_id) ==
    /\ last' = IF BatchFound(batch_id)
               THEN [op |-> "get_batch_status", job |-> 0, batch |-> batch_id,
                     ret |-> "found", info |-> batch_processors[batch_id]]
               ELSE [op |-> "get_batch_status", job |-> 0, batch |-> batch_id,
                     ret |-> "None"]
    /\ UNCHANGED <<jobs, versions, active_jobs, task, spawned>>
    /\ UNCHANGED <<batch_processors, batch_task>>

BatchIds == 1..MaxBatches

AllBatchIds == 1..(MaxBatches + 1)

\* Faulty variant: only customers are turned away.
BatchForbiddenCustomerOnly(role, knowledge_base_tier) ==
    role = "customer"

\* start_batch_processing: customers, and engineers asking for a tier above
\* 2, get 403.
BatchForbidden(role, knowledge_base_tier) ==
    \/ role = "customer"
    \/ role = "engineer" /\ knowledge_base_tier > 2

\* Faulty variant: the response is built after the task has handled a
\* document.
BatchProcessResponseAdvanced(batch_status) ==
    [ status |-> batch_status.status,
      total_documents |-> batch_status.total_documents,
      processed_documents |-> batch_status.processed_documents + 1,
      progress_percentage |-> <<100, batch_status.total_documents>> ]

\* BatchProcessResponse(status=batch_status["status"], ...)
BatchProcessResponse(batch_status) ==
    [ status |-> batch_status.status,
      total_documents |-> batch_status.total_documents,
      processed_documents |-> batch_status.processed_documents,
      progress_percentage |-> batch_status.progress_percentage ]

\* The endpoint: the role check, process_batch, then get_batch_status of the
\* new id with no suspension in between (process_batch contains no await);
\* a ValueError of process_batch becomes a 500.
start_batch_processing(role, document_ids, knowledge_base_tier) ==
    IF BatchForbidden(role, knowledge_base_tier)
    THEN /\ response' = [endpoint |-> "start_batch_processing", role |-> role,
                         knowledge_base_tier |-> knowledge_base_tier,
                         code |-> 403]
         /\ last' = [op |-> "start_batch_processing", job |-> 0, batch |-> 0,
                     ret |-> "forbidden"]
         /\ UNCHANGED <<jobs, versions, active_jobs, task, spawned>>
         /\ UNCHANGED <<batch_processors, batch_task>>
    ELSE /\ process_batch(document_ids, knowledge_base_tier)
         /\ response' =
              IF last'.ret = "ok"
              THEN [endpoint |-> "start_batch_processing", role |-> role,
                    knowledge_base_tier |-> knowledge_base_tier,
                    code |-> 200,
                    body |-> BatchProcessResponse(
                                 batch_processors'[last'.batch])]
              ELSE [endpoint |-> "start_batch_processing", role |-> role,
                    knowledge_base_tier |-> knowledge_base_tier,
                    code |-> 500]

ProcessBatch ==
    /\ \E role \in UserRoleEnum, document_ids \in BatchDocIdLists,
          knowledge_base_tier \in Tiers :
           start_batch_processing(role, document_ids, knowledge_base_tier)
    /\ UNCHANGED <<query_vars, embed_vars, otp_vars>>

BatchStart ==
    /\ \E batch_id \in BatchIds : execute_batch_start(batch_id)
    /\ response' = NoResponse
    /\ UNCHANGED <<query_vars, embed_vars, otp_vars>>

BatchDocument ==
    /\ \E batch_id \in BatchIds, fails \in BOOLEAN :
           execute_batch_document(batch_id, fails)
    /\ response' = NoResponse
    /\ UNCHANGED <<query_vars, embed_vars, otp_vars>>

BatchStatus ==
    /\ \E batch_id \in AllBatchIds : get_batch_status(batch_id)
    /\ response' = NoResponse
    /\ UNCHANGED <<query_vars, embed_vars, otp_vars>>

BatchNext ==
    \/ ProcessBatch
    \/ BatchStart
    \/ BatchDocument
    \/ BatchStatus

BatchSpec == Init /\ [][BatchNext]_all_vars

\* Several batches at once: process_batch called on the service while the
\* tasks of earlier batches are suspended in their sleep.  Every call asks
\* for tier 3, where each stored document is accessible, with a list of
\* distinct stored documents or with one that repeats an id.
ConcurrentIds == 1..MaxConcurrentBatches

ConcurrentDocIdLists ==
    {[i \in 1..n |-> i] : n \in 1..MaxDocIds} \cup {<<1, 1>>}

ConcurrentProcessBatch ==
    /\ \E document_ids \in ConcurrentDocIdLists :
           process_batch_upto(MaxConcurrentBatches, document_ids, 3)
    /\ response' = NoResponse
    /\ UNCHANGED <<query_vars, embed_vars, otp_vars>>

ConcurrentBatchStart ==
    /\ \E batch_id \in ConcurrentIds : execute_batch_start(batch_id)
    /\ response' = NoResponse
    /\ UNCHANGED <<query_vars, embed_vars, otp_vars>>

ConcurrentBatchDocument ==
    /\ \E batch_id \in ConcurrentIds, fails \in BOOLEAN :
           execute_batch_document(batch_id, fails)
    /\ response' = NoResponse
    /\ UNCHANGED <<query_vars, embed_vars, otp_vars>>

ConcurrentBatchNext ==
    \/ ConcurrentProcessBatch
    \/ ConcurrentBatchStart
    \/ ConcurrentBatchDocument

ConcurrentBatchSpec == Init /\ [][ConcurrentBatchNext]_all_vars


\* ------------------------------------------------- training endpoints

\* Faulty variant: only customers are turned away.
TrainingForbiddenCustomerOnly(role) == role = "customer"

\* if current_user.role != UserRoleEnum.ADMIN: raise 403
TrainingForbidden(role) == role # "admin"

\* The 403 of an endpoint: nothing was called.
Forbidden(endpoint, role) ==
    /\ response' = [endpoint |-> endpoint, role |-> role, code |-> 403]
    /\ last' = [op |-> endpoint, job |-> 0, ret |-> "forbidden"]
    /\ UNCHANGED <<jobs, versions, active_jobs, task, spawned>>

\* POST /jobs: a ValueError of the service becomes a 500.
api_create_training_job(role, training_type, knowledge_base_tier, document_ids) ==
    IF TrainingForbidden(role)
    THEN Forbidden("create_training_job", role)
    ELSE /\ create_training_job(training_type, knowledge_base_tier, document_ids)
         /\ response' = [endpoint |-> "create_training_job", role |-> role,
                         code |-> IF last'.ret = "ok" THEN 200 ELSE 500]

\* POST /jobs/{job_id}/start: `if not success: raise 400`
api_start_training_job(role, job_id) ==
    IF TrainingForbidden(role)
    THEN Forbidden("start_training_job", role)
    ELSE /\ start_training_job(job_id)
         /\ response' = [endpoint |-> "start_training_job", role |-> role,
                         code |-> IF last'.ret = "true" THEN 200 ELSE 400]

\* POST /jobs/{job_id}/cancel: `if not success: raise 400`
api_cancel_training_job(role, job_id) ==
    IF TrainingForbidden(role)
    THEN Forbidden("cancel_training_job", role)
    ELSE /\ cancel_training_job(job_id)
         /\ response' = [endpoint |-> "cancel_training_job", role |-> role,
                         code |-> IF last'.ret = "true" THEN 200 ELSE 400]

\* The optional knowledge_base_tier of GET /models; 0 stands for omitted.
\* `if knowledge_base_tier:` treats 0 and None alike.
TierFilters == 0..3

\* TrainingService.get_model_versions: the filter is applied when it is
\* truthy, and it is an equality.
get_model_versions(knowledge_base_tier) ==
    IF knowledge_base_tier # 0
    THEN SelectSeq(versions,
                   LAMBDA v : v.knowledge_base_tier = knowledge_base_tier)
    ELSE versions

\* GET /models: customers get tier 1, an engineer's filter above 2 becomes 2,
\* every other filter is passed on as it is.
api_get_model_versions(role, knowledge_base_tier) ==
    LET tier == IF role = "customer" THEN 1
                ELSE IF role = "engineer" /\ knowledge_base_tier # 0
                        /\ knowledge_base_tier > 2
                THEN 2
                ELSE knowledge_base_tier
    IN  /\ response' = [endpoint |-> "get_model_versions", role |-> role,
                        knowledge_base_tier |-> knowledge_base_tier,
                        code |-> 200,
                        body |-> get_model_versions(tier)]
        /\ last' = [op |-> "get_model_versions", job |-> 0, ret |-> "ok"]
        /\ UNCHANGED <<jobs, versions, active_jobs, task, spawned>>

\* The requests of every role.  Jobs are created without documents.
ApiCreate ==
    /\ \E role \in UserRoleEnum, knowledge_base_tier \in Tiers :
           api_create_training_job(role, "incremental", knowledge_base_tier,
                                   << >>)
    /\ UNCHANGED <<query_vars, embed_vars, batch_vars, otp_vars>>

ApiStart ==
    /\ \E role \in UserRoleEnum, job_id \in AllJobIds :
           api_start_training_job(role, job_id)
    /\ UNCHANGED <<query_vars, embed_vars, batch_vars, otp_vars>>

ApiCancel ==
    /\ \E role \in UserRoleEnum, job_id \in AllJobIds :
           api_cancel_training_job(role, job_id)
    /\ UNCHANGED <<query_vars, embed_vars, batch_vars, otp_vars>>

ApiModels ==
    /\ \E role \in UserRoleEnum, knowledge_base_tier \in TierFilters :
           api_get_model_versions(role, knowledge_base_tier)
    /\ UNCHANGED <<query_vars, embed_vars, batch_vars, otp_vars>>

\* The background task against an available store.
ApiTask ==
    /\ \E job_id \in JobIds :
           \/ execute_first_segment(job_id, "none", FALSE)
           \/ execute_step_segment(job_id, "none", FALSE)
           \/ execute_last_segment(job_id, "none", FALSE)
           \/ execute_cancelled(job_id)
    /\ response' = NoResponse
    /\ UNCHANGED <<query_vars, embed_vars, batch_vars, otp_vars>>

ApiNext ==
    \/ ApiCreate
    \/ ApiStart
    \/ ApiCancel
    \/ ApiModels
    \/ ApiTask

ApiSpec == Init /\ [][ApiNext]_all_vars


\* ------------------------------------------------------------ OTPManager

\* settings.admin_otp_expire_minutes (default)
otp_expire_minutes == 5

\* The codes SecurityManager.generate_otp can draw, and a caller can submit.
Otps == {"123456", "654321"}

\* generate_otp: a new code replaces what is stored for the identifier.
generate_otp(identifier, otp) ==
    /\ otp_storage' = [otp_storage EXCEPT ![identifier] =
                          [otp |-> otp,
                           expires_at |-> utcnow + otp_expire_minutes,
                           attempts |-> 0]]
    /\ otp_log' = [otp_log EXCEPT ![identifier] =
                      [generated |-> TRUE, otp |-> otp,
                       expires_at |-> utcnow + otp_expire_minutes,
                       incorrect |-> 0, verified |-> FALSE, dead |-> FALSE]]
    /\ last' = [op |-> "generate_otp", job |-> 0, identifier |-> identifier,
                otp |-> otp, ret |-> otp]
    /\ UNCHANGED utcnow

\* if datetime.utcnow() > stored_otp_data["expires_at"]
OtpExpired(stored_otp_data) == utcnow > stored_otp_data.expires_at

\* Faulty variant: the limit lets a fourth attempt through.
AttemptsExceededLate(stored_otp_data) == stored_otp_data.attempts > 3

\* if stored_otp_data["attempts"] >= 3
AttemptsExceeded(stored_otp_data) == stored_otp_data.attempts >= 3

\* What the call adds to the log of the OTP generated last for the
\* identifier; incorrect stops counting at 3.
OtpLogged(log, otp, ret) ==
    IF ~log.generated
    THEN log
    ELSE [log EXCEPT
            !.incorrect = IF otp # log.otp THEN Min(@ + 1, 3) ELSE @,
            !.verified = @ \/ ret = "true",
            !.dead = \/ @
                     \/ ret = "true"
                     \/ utcnow > log.expires_at
                     \/ log.incorrect >= 3]

verify_otp(identifier, otp) ==
    LET stored_otp_data == otp_storage[identifier]
        ret == IF /\ stored_otp_data # NoOtp
                  /\ ~OtpExpired(stored_otp_data)
                  /\ ~AttemptsExceeded(stored_otp_data)
                  /\ stored_otp_data.otp = otp
               THEN "true" ELSE "false"
    IN  /\ otp_storage' =
              IF stored_otp_data = NoOtp
              THEN otp_storage
              ELSE IF \/ OtpExpired(stored_otp_data)
                      \/ AttemptsExceeded(stored_otp_data)
                      \/ stored_otp_data.otp = otp
              THEN [otp_storage EXCEPT ![identifier] = NoOtp]
              ELSE [otp_storage EXCEPT ![identifier].attempts = @ + 1]
        /\ otp_log' = [otp_log EXCEPT ![identifier] = OtpLogged(@, otp, ret)]
        /\ last' = [op |-> "verify_otp", job |-> 0, identifier |-> identifier,
                    otp |-> otp, ret |-> ret]
        /\ UNCHANGED utcnow

\* cleanup_expired_otps: every expired entry is removed.
cleanup_expired_otps ==
    /\ otp_storage' = [identifier \in Identifiers |->
                          IF /\ otp_storage[identifier] # NoOtp
                             /\ OtpExpired(otp_storage[identifier])
                          THEN NoOtp
                          ELSE otp_storage[identifier]]
    /\ last' = [op |-> "cleanup_expired_otps", job |-> 0, ret |-> "none"]
    /\ UNCHANGED <<utcnow, otp_log>>

GenerateOtp ==
    /\ \E identifier \in Identifiers, otp \in Otps :
           generate_otp(identifier, otp)
    /\ UNCHANGED <<jobs, versions, active_jobs, task, spawned>>
    /\ UNCHANGED <<query_vars, embed_vars, batch_vars, api_vars>>

VerifyOtp ==
    /\ \E identifier \in Identifiers, otp \in Otps :
           verify_otp(identifier, otp)
    /\ UNCHANGED <<jobs, versions, active_jobs, task, spawned>>
    /\ UNCHANGED <<query_vars, embed_vars, batch_vars, api_vars>>

CleanupOtps ==
    /\ cleanup_expired_otps
    /\ UNCHANGED <<jobs, versions, active_jobs, task, spawned>>
    /\ UNCHANGED <<query_vars, embed_vars, batch_vars, api_vars>>

\* A minute passes.
Tick ==
    /\ utcnow < MaxClock
    /\ utcnow' = utcnow + 1
    /\ last' = [op |-> "tick", job |-> 0, ret |-> "none"]
    /\ UNCHANGED <<otp_storage, otp_log>>
    /\ UNCHANGED <<jobs, versions, active_jobs, task, spawned>>
    /\ UNCHANGED <<query_vars, embed_vars, batch_vars, api_vars>>

OtpNext ==
    \/ GenerateOtp
    \/ VerifyOtp
    \/ CleanupOtps
    \/ Tick

OtpSpec == Init /\ [][OtpNext]_all_vars


\* ----------------------------------------------------------- properties

IsCall(op, job_id) == last'.op = op /\ last'.job = job_id

VersionsOf(job_id) ==
    {i \in DOMAIN versions : versions[i].training_job_id = job_id}

\* C1: over any sequence of start_training_job calls on a job id, a call
\* that returns true is the one that takes the job from PENDING to RUNNING
\* and creates the one background task; every other call returns false and
\* creates no task, so no job id ever has more than one task created for it.
C1_OneStartOneTask ==
    [][\A j \in JobIds :
        /\ spawned'[j] <= 1
        /\ (IsCall("start", j) /\ last'.ret = "true")
              => /\ Exists(j)
                 /\ jobs[j].status = PENDING
                 /\ jobs'[j].status = RUNNING
                 /\ spawned[j] = 0
                 /\ spawned'[j] = 1
                 /\ j \in active_jobs'
        /\ (IsCall("start", j) /\ last'.ret = "false")
              => /\ spawned' = spawned
                 /\ task' = task
                 /\ active_jobs' = active_jobs
        /\ (Exists(j) /\ jobs[j].status = PENDING /\ jobs'[j].status = RUNNING)
              => (IsCall("start", j) /\ last'.ret = "true")
        /\ spawned'[j] # spawned[j]
              => (IsCall("start", j) /\ last'.ret = "true")
      ]_vars

\* A second start on a job that is already running has been refused.
C1_Witness ==
    /\ last.op = "start" /\ last.job = 1 /\ last.ret = "false"
    /\ Exists(1) /\ jobs[1].status = RUNNING
    /\ spawned[1] = 1

\* C2: in every reachable state, a job whose status is CANCELLED or FAILED
\* has no ModelVersion row that references its id.
C2_NoVersionOnCancelOrFail ==
    \A j \in DOMAIN jobs :
        jobs[j].status \in {CANCELLED, FAILED} => VersionsOf(j) = {}

\* A job cancelled while its last step was under way, the cancellation
\* delivered to the task.
C2_Witness ==
    /\ Exists(1) /\ jobs[1].status = CANCELLED
    /\ task[1].pc = "cancelled"
    /\ task[1].step_num = Len(steps)

C4_NoProgressAfterCancel ==
    [][\A j \in DOMAIN jobs :
        jobs[j].status = CANCELLED =>
            /\ jobs'[j].status = CANCELLED
            /\ jobs'[j].progress_percentage = jobs[j].progress_percentage
            /\ jobs'[j].current_step = jobs[j].current_step
      ]_vars

\* The task was sleeping in step 3 when the job was cancelled, and the
\* CancelledError has been delivered to it.
C4_Witness ==
    /\ Exists(1) /\ jobs[1].status = CANCELLED
    /\ last.op = "task" /\ last.ret = "cancelled"
    /\ task[1].step_num = 3
    /\ jobs[1].progress_percentage = 40

AllowedTransitions ==
    { <<PENDING, RUNNING>>, <<RUNNING, COMPLETED>>, <<RUNNING, FAILED>>,
      <<RUNNING, CANCELLED>> }

\* C6: a job is created PENDING, every later change of its status is one of
\* PENDING->RUNNING, RUNNING->COMPLETED, RUNNING->FAILED, RUNNING->CANCELLED
\* (so the three terminal states are never left), and PAUSED is never reached.
C6_StatusTransitions ==
    [][/\ \A j \in DOMAIN jobs :
            /\ j \in DOMAIN jobs'
            /\ jobs'[j].status # jobs[j].status
                  => <<jobs[j].status, jobs'[j].status>> \in AllowedTransitions
       /\ \A j \in DOMAIN jobs' :
            /\ jobs'[j].status # PAUSED
            /\ j \notin DOMAIN jobs => jobs'[j].status = PENDING
      ]_vars

\* A job failed by its task, then offered a cancel that was refused.
C6_Witness ==
    /\ Exists(1) /\ jobs[1].status = FAILED
    /\ last.op = "cancel" /\ last.job = 1 /\ last.ret = "false"

\* C7: progressPercentage of a job never decreases, from its creation on.
C7_ProgressMonotone ==
    [][\A j \in DOMAIN jobs :
        jobs'[j].progress_percentage >= jobs[j].progress_percentage
      ]_vars

\* The task has started its fourth step: the percentage has been written
\* seven times and stands at 80.
C7_Witness ==
    /\ Exists(1) /\ jobs[1].status = RUNNING
    /\ task[1].pc = "sleeping" /\ task[1].step_num = 4
    /\ jobs[1].progress_percentage = 80

\* C8: when the task of a started job has run all five steps with no
\* exception and no cancellation, the job is COMPLETED with
\* progressPercentage 100, completedAt and finalScore set, and exactly one
\* ModelVersion references it, with the job's tier.
C8_Completion ==
    \A j \in DOMAIN jobs :
        task[j].pc = "completed" =>
            /\ jobs[j].status = COMPLETED
            /\ jobs[j].progress_percentage = 100
            /\ jobs[j].completed_at
            /\ jobs[j].final_score # 0
            /\ Cardinality(VersionsOf(j)) = 1
            /\ \A i \in VersionsOf(j) :
                  versions[i].knowledge_base_tier = jobs[j].knowledge_base_tier

\* A tier 2 job has completed.
C8_Witness ==
    /\ Exists(1) /\ task[1].pc = "completed"
    /\ jobs[1].knowledge_base_tier = 2
    /\ last.op = "task" /\ last.ret = "completed"

\* C9: a task that ended on an exception raised while it executed a step (a
\* failing progress or completion write included) leaves the job FAILED with
\* errorMessage and completedAt set, and so not RUNNING.
C9_FailureRecorded ==
    \A j \in DOMAIN jobs :
        (task[j].pc \in {"failed", "crashed"} /\ task[j].step_num >= 1)
            => /\ jobs[j].status = FAILED
               /\ jobs[j].error_message # "None"
               /\ jobs[j].completed_at

AllAccessible(document_ids, knowledge_base_tier) ==
    \A i \in DOMAIN document_ids :
        /\ document_ids[i] \in DOMAIN Documents
        /\ Documents[document_ids[i]] <= knowledge_base_tier

\* C10: create_training_job succeeds exactly when every id of documentIds
\* refers to an existing document of tier <= the job's tier (the empty list
\* always passes); otherwise it raises and no job row is persisted.
C10_CreateValidation ==
    [][last'.op = "create" =>
        /\ (last'.ret = "ok")
              <=> AllAccessible(last'.document_ids, last'.knowledge_base_tier)
        /\ (last'.ret = "ok") => Len(jobs') = Len(jobs) + 1
        /\ (last'.ret # "ok") => jobs' = jobs
      ]_vars

\* C11: every job returned by create_training_job has status PENDING,
\* progress 0 and an estimated duration of base(type) + 2 * len(documentIds)
\* minutes, where base is 60 for full, 30 for incremental, 45 for batch and
\* 15 for real_time.
C11_CreatedJob ==
    [][\A j \in JobIds :
        (IsCall("create", j) /\ last'.ret = "ok")
            => LET base == CASE last'.training_type = "full" -> 60
                             [] last'.training_type = "incremental" -> 30
                             [] last'.training_type = "batch" -> 45
                             [] last'.training_type = "real_time" -> 15
               IN  /\ jobs'[j].status = PENDING
                   /\ jobs'[j].progress_percentage = 0
                   /\ jobs'[j].estimated_duration_minutes
                          = base + 2 * Len(last'.document_ids)
      ]_vars

\* An incremental job over two accessible documents was created: 34 minutes.
C11_Witness ==
    /\ last.op = "create"
    /\ last.ret = "ok"
    /\ last.training_type = "incremental"
    /\ Len(last.document_ids) = 2
    /\ jobs[last.job].estimated_duration_minutes = 34

\* C12: once start_training_job has returned true, every observation of the
\* job while it is RUNNING shows totalSteps = 5, the observations made before
\* the background task has executed its first instruction included.
C12_TotalStepsWhileRunning ==
    \A j \in DOMAIN jobs :
        jobs[j].status = RUNNING => jobs[j].total_steps = 5

\* C13: for every query at tier T and any list of objects the index returns,
\* no chunk returned by search_similar_documents, and no source of the
\* result, belongs to a document whose tier is greater than T.
C13_TierFilter ==
    /\ \A i \in DOMAIN query.docs :
           query.index[query.docs[i].doc_id].knowledge_base_tier
               <= query.knowledge_base_tier
    /\ \A i \in DOMAIN query.sources :
           query.index[query.sources[i].document_id].knowledge_base_tier
               <= query.knowledge_base_tier

\* C14: process_query returns a result for every request, and whenever the
\* synthesizer is unavailable or fails the result has confidence <= 0.3 and
\* no sources.
C14_DegradedSynthesis ==
    query.pc = "returned"
        => /\ query.synthesizer \in {"ok", "unavailable", "raised"}
           /\ query.synthesizer \in {"unavailable", "raised"}
                  => /\ query.confidence <= 3
                     /\ query.sources = << >>

\* generate_content raised after sources had been prepared from a chunk.
C14_Witness ==
    /\ query.pc = "returned"
    /\ query.synthesizer = "raised"
    /\ query.context # << >>
    /\ query.sources = << >>

\* C15: when the index client is absent, is not ready, or raises during a
\* search, search_similar_documents returns the empty list, and the
\* synthesizer is invoked with zero context chunks.
C15_IndexUnavailable ==
    (/\ query.pc \in {"generating", "returned"}
     /\ query.search \in {"absent", "not_ready", "ready_raised",
                          "unfiltered", "raised"})
        => /\ query.docs = << >>
           /\ query.context = << >>

\* C16: the chunks, and the sources of the result, are in descending order of
\* relevance, and chunks of equal relevance keep the order in which the
\* index returned them.
C16_Ordering ==
    /\ \A i, j \in DOMAIN query.docs :
           i < j => \/ query.docs[i].relevance_score > query.docs[j].relevance_score
                    \/ /\ query.docs[i].relevance_score = query.docs[j].relevance_score
                       /\ query.docs[i].doc_id < query.docs[j].doc_id
    /\ \A i, j \in DOMAIN query.sources :
           i < j => \/ query.sources[i].relevance_score
                          > query.sources[j].relevance_score
                    \/ /\ query.sources[i].relevance_score
                              = query.sources[j].relevance_score
                       /\ query.sources[i].document_id < query.sources[j].document_id

\* C17: the relevance of every chunk is 1 - distance clamped to [0, 1], so it
\* lies in [0, 1] and a distance of 0 gives relevance 1 (tenths here).
C17_Relevance ==
    \A i \in DOMAIN query.docs :
        LET distance == query.index[query.docs[i].doc_id].distance
            clamped == IF 10 - distance < 0 THEN 0
                       ELSE IF 10 - distance > 10 THEN 10
                       ELSE 10 - distance
        IN  /\ query.docs[i].relevance_score = clamped
            /\ query.docs[i].relevance_score \in 0..10

\* C19: process_query bounds its total wait: every call returns, also when an
\* external call it awaits never answers.
C19_BoundedWait ==
    (query.pc # "idle") ~> (query.pc = "returned")

C21_BatchCompleteness ==
    [][/\ (last'.op = "process_batch" /\ last'.ret = "ok")
            => batch_processors'[last'.batch].total_documents
                   = Len(last'.document_ids)
       /\ \A b \in DOMAIN batch_processors :
              batch_processors'[b].total_documents
                  = batch_processors[b].total_documents
       /\ \A b \in DOMAIN batch_processors' :
              batch_processors'[b].status = "completed"
                  => /\ batch_processors'[b].processed_documents
                            = batch_processors'[b].total_documents
                     /\ batch_processors'[b].progress_percentage[1]
                            = 100 * batch_processors'[b].progress_percentage[2]
      ]_all_vars

\* A batch of two documents has completed.
C21_Witness ==
    \E b \in DOMAIN batch_processors :
        /\ batch_processors[b].status = "completed"
        /\ batch_processors[b].total_documents = 2
        /\ batch_processors[b].processed_documents = 2
        /\ batch_task[b].pc = "completed"

\* C22: process_batch returns a batch id exactly when every id of
\* documentIds resolves to an existing document of tier <= the requested
\* tier; otherwise it raises, registers no batch run and spawns no task.
C22_BatchValidation ==
    [][last'.op = "process_batch" =>
        /\ (last'.ret = "ok")
              <=> AllAccessible(last'.document_ids, last'.knowledge_base_tier)
        /\ (last'.ret = "ok")
              => /\ Len(batch_processors') = Len(batch_processors) + 1
                 /\ Len(batch_task') = Len(batch_task) + 1
        /\ (last'.ret # "ok")
              => UNCHANGED <<batch_processors, batch_task>>
      ]_all_vars

\* C23: when the batch task raises after j documents have been processed,
\* the batch run ends failed with the error recorded and processedDocuments
\* stays j; the status is never processing once the task has ended.
C23_BatchFailure ==
    [][/\ \A b \in DOMAIN batch_task :
              (batch_task[b].pc = "sleeping" /\ batch_task'[b].pc = "failed")
                  => /\ batch_processors'[b].status = "failed"
                     /\ batch_processors'[b].error
                     /\ batch_processors'[b].processed_documents = batch_task[b].i
                     /\ batch_processors'[b].processed_documents
                            = batch_processors[b].processed_documents
                     /\ batch_processors'[b].progress_percentage
                            = batch_processors[b].progress_percentage
       /\ \A b \in DOMAIN batch_task' :
              batch_task'[b].pc \in {"completed", "failed"}
                  => batch_processors'[b].status # "processing"
      ]_all_vars

\* A batch of two documents failed after its first document.
C23_Witness ==
    \E b \in DOMAIN batch_processors :
        /\ batch_task[b].pc = "failed"
        /\ batch_processors[b].status = "failed"
        /\ batch_processors[b].error
        /\ batch_processors[b].total_documents = 2
        /\ batch_processors[b].processed_documents = 1

\* C24: get_batch_status returns not-found exactly for the ids no
\* process_batch call has returned, and for a returned id it returns that
\* batch run at every later time.
C24_BatchStatus ==
    [][last'.op = "get_batch_status" =>
        /\ (last'.ret = "None") <=> (last'.batch \notin DOMAIN batch_task)
        /\ (last'.ret # "None")
              => /\ last'.ret = "found"
                 /\ last'.info = batch_processors[last'.batch]
        /\ UNCHANGED <<batch_processors, batch_task>>
      ]_all_vars

\* The status of a batch was read after the batch had completed.
C24_Witness ==
    /\ last.op = "get_batch_status"
    /\ last.ret = "found"
    /\ last.info.status = "completed"
    /\ batch_task[last.batch].pc = "completed"

\* C28: the batch run in the response to a successful batch start is the
\* initial one: status processing, processedDocuments 0, progressPercentage
\* 0.0 and totalDocuments = the number of submitted ids.
C28_BatchStartSnapshot ==
    [][(response'.endpoint = "start_batch_processing" /\ response'.code = 200)
          => /\ response'.body.status = "processing"
             /\ response'.body.processed_documents = 0
             /\ response'.body.progress_percentage[1] = 0
             /\ response'.body.total_documents = Len(last'.document_ids)
             /\ batch_task'[last'.batch].pc = "scheduled"
      ]_all_vars

\* An admin started a batch of two documents.
C28_Witness ==
    /\ response.endpoint = "start_batch_processing"
    /\ response.code = 200
    /\ response.role = "admin"
    /\ response.body.total_documents = 2

\* C29: a batch request is rejected as forbidden, and creates no batch run,
\* whenever the caller is a customer or an engineer asking for a tier above
\* 2; engineers are accepted for tiers 1 and 2.
C29_BatchForbidden ==
    [][response'.endpoint = "start_batch_processing"
          => /\ (\/ response'.role = "customer"
                 \/ response'.role = "engineer"
                      /\ response'.knowledge_base_tier > 2)
                    => /\ response'.code = 403
                       /\ UNCHANGED <<batch_processors, batch_task>>
             /\ (response'.role = "engineer"
                   /\ response'.knowledge_base_tier <= 2)
                    => response'.code # 403
      ]_all_vars

\* An engineer was turned away at tier 3 after a batch had been registered.
C29_Witness ==
    /\ response.endpoint = "start_batch_processing"
    /\ response.role = "engineer"
    /\ response.knowledge_base_tier = 3
    /\ response.code = 403
    /\ Len(batch_processors) = 1

\* C25: with the roles mapped customer -> 1, engineer -> 2, admin -> 3, every
\* document a search returns at the caller's tier T1 is also visible at
\* every tier T2 > T1.
C25_TierMonotone ==
    query.search \in {"filtered", "unfiltered"}
        => /\ query.knowledge_base_tier
                  = CASE query.user_role = "customer" -> 1
                      [] query.user_role = "engineer" -> 2
                      [] query.user_role = "admin" -> 3
           /\ \A T2 \in Tiers :
                  T2 > query.knowledge_base_tier
                      => LET visible ==
                                 IF query.search = "filtered"
                                 THEN filter_results(query.index, T2, Limit)
                                 ELSE Take(query.index, Limit)
                         IN  \A i \in DOMAIN query.docs :
                                 \E k \in DOMAIN visible :
                                     visible[k].doc_id = query.docs[i].doc_id

\* A customer's filtered search returned a tier-1 document while the index
\* also held a document of a higher tier.
C25_Witness ==
    /\ query.search = "filtered"
    /\ query.user_role = "customer"
    /\ Len(query.docs) = 1
    /\ Len(query.index) = 2
    /\ query.index[query.docs[1].doc_id].knowledge_base_tier = 1

\* C26: for a caller with role engineer, every model version the listing
\* returns has knowledge_base_tier <= 2, for every value of the optional
\* tier filter and when it is omitted.
C26_EngineerModelVersions ==
    (response.endpoint = "get_model_versions" /\ response.role = "engineer")
        => \A i \in DOMAIN response.body :
               response.body[i].knowledge_base_tier <= 2

\* C27: a create, start or cancel request by a caller who is not admin is
\* rejected as forbidden and changes no job record and no task registry
\* entry; only admin requests create a job or change its status.
C27_AdminOnly ==
    [][(/\ response'.endpoint \in {"create_training_job", "start_training_job",
                                   "cancel_training_job"}
        /\ response'.role # "admin")
          => /\ response'.code = 403
             /\ UNCHANGED <<jobs, versions, active_jobs, task, spawned>>
      ]_all_vars

\* An engineer asked to cancel a running job and was turned away.
C27_Witness ==
    /\ response.endpoint = "cancel_training_job"
    /\ response.role = "engineer"
    /\ response.code = 403
    /\ Len(jobs) >= 1
    /\ jobs[1].status = RUNNING
    /\ task[1].pc = "sleeping"

\* C30: for any interleaving of start_training_job and cancel_training_job
\* calls on one job id the results are those of a serial order of the calls:
\* each call answers for the state it finds, at most one start returns true,
\* at most one cancel returns true, and a cancel returns true only after a
\* start has.
C30_StartCancelSerial ==
    [][\A j \in JobIds :
        /\ (IsCall("start", j) /\ last'.ret = "true")
              => /\ spawned[j] = 0
                 /\ jobs[j].status = PENDING
                 /\ jobs'[j].status = RUNNING
        /\ (IsCall("cancel", j) /\ last'.ret = "true")
              => /\ spawned[j] = 1
                 /\ jobs[j].status = RUNNING
                 /\ jobs'[j].status = CANCELLED
        /\ (Exists(j) /\ jobs[j].status # PENDING)
              => /\ jobs'[j].status # PENDING
                 /\ spawned'[j] = spawned[j]
        /\ (Exists(j) /\ jobs[j].status = CANCELLED)
              => jobs'[j].status = CANCELLED
      ]_vars

\* A second cancel of a cancelled job has returned false.
C30_Witness ==
    /\ last.op = "cancel" /\ last.job = 1 /\ last.ret = "false"
    /\ Exists(1) /\ jobs[1].status = CANCELLED
    /\ spawned[1] = 1

\* C31: the task runs the five steps in the order Preparing data,
\* Generating embeddings, Training model, Validating model, Finalizing:
\* while step i runs, currentStep is its name and progressPercentage is the
\* sum of the weights of the steps before it (0, 10, 40, 80, 95); when step
\* i has ended, progressPercentage is the sum up to it (10, 40, 80, 95, 100).
C31_StepOrder ==
    [][LET name == <<"Preparing data", "Generating embeddings",
                     "Training model", "Validating model", "Finalizing">>
           before == <<0, 10, 40, 80, 95>>
           after == <<10, 40, 80, 95, 100>>
       IN  \A j \in DOMAIN jobs' :
            /\ task'[j].pc = "sleeping"
                  => /\ task'[j].step_num \in 1..5
                     /\ jobs'[j].current_step = name[task'[j].step_num]
                     /\ jobs'[j].progress_percentage = before[task'[j].step_num]
            /\ (task[j].pc = "scheduled" /\ task'[j].pc = "sleeping")
                  => task'[j].step_num = 1
            /\ (task[j].pc = "sleeping" /\ task'[j].pc = "sleeping")
                  => \/ task'[j].step_num = task[j].step_num
                     \/ /\ task'[j].step_num = task[j].step_num + 1
                        /\ jobs'[j].progress_percentage = after[task[j].step_num]
            /\ (task[j].pc = "sleeping" /\ task'[j].pc = "completed")
                  => /\ task[j].step_num = 5
                     /\ jobs'[j].progress_percentage = after[5]
      ]_vars

\* The task is in its last step: Finalizing, at 95.
C31_Witness ==
    /\ Exists(1) /\ jobs[1].status = RUNNING
    /\ task[1].pc = "sleeping" /\ task[1].step_num = 5
    /\ jobs[1].current_step = "Finalizing"
    /\ jobs[1].progress_percentage = 95

\* C32: a job id has a task handle in active_jobs only if its job record
\* exists and is RUNNING; a PENDING, COMPLETED, FAILED or CANCELLED job has
\* no handle.
C32_HandleOnlyRunning ==
    \A j \in active_jobs :
        /\ Exists(j)
        /\ jobs[j].status = RUNNING

\* A job whose task failed in its third step: the task was created once and
\* its handle is gone.
C32_Witness ==
    /\ Exists(1) /\ jobs[1].status = FAILED
    /\ spawned[1] = 1
    /\ task[1].pc = "failed" /\ task[1].step_num = 3
    /\ 1 \notin active_jobs

\* C33: the orchestrator never retries: no step gives a FAILED job a new
\* background task or moves it back to RUNNING, a start on it returns false,
\* and no step changes retryCount or maxRetries of any job.
C33_NoRetry ==
    [][\A j \in DOMAIN jobs :
        /\ jobs[j].status = FAILED
              => /\ jobs'[j].status = FAILED
                 /\ spawned'[j] = spawned[j]
                 /\ task'[j] = task[j]
                 /\ IsCall("start", j) => last'.ret = "false"
        /\ jobs'[j].retry_count = jobs[j].retry_count
        /\ jobs'[j].max_retries = jobs[j].max_retries
      ]_vars

\* A start offered to a job whose task failed has returned false.
C33_Witness ==
    /\ Exists(1) /\ jobs[1].status = FAILED
    /\ task[1].pc = "failed"
    /\ last.op = "start" /\ last.job = 1 /\ last.ret = "false"
    /\ jobs[1].retry_count = 0 /\ jobs[1].max_retries = 3

\* C34: when the background task is scheduled fairly, every job that enters
\* RUNNING eventually is COMPLETED, FAILED or CANCELLED, also when the task
\* does not find the job record or the write of its failure handler fails.
C34_RunningEnds ==
    \A j \in JobIds :
        (Exists(j) /\ jobs[j].status = RUNNING)
            ~> (Exists(j) /\ jobs[j].status \in {COMPLETED, FAILED, CANCELLED})

\* C35: no exception raised inside a training background task leaves the
\* task, the initial job lookup and the failure handler included: the task
\* never ends on an exception that left its handler, and a task that ended
\* in its handler has recorded the failure on the job.  (The CancelledError
\* that delivers a requested cancellation is not counted.)
C35_NoEscape ==
    \A j \in JobIds :
        /\ task[j].pc # "crashed"
        /\ task[j].pc = "failed"
              => /\ Exists(j)
                 /\ jobs[j].status = FAILED
                 /\ jobs[j].error_message # "None"

\* C36: whenever the embedding provider fails, the model being missing or
\* its encode call raising, generate_embeddings returns the hash-based
\* embedding of the text, so that texts with different digests get different
\* vectors.
C36_FallbackOnFailure ==
    \A i, j \in DOMAIN embeddings.calls :
        embeddings.calls[i].path \in {"hash", "zero"}
            => /\ embeddings.calls[i].embedding
                      = hash_embedding(embeddings.calls[i].text)
               /\ (/\ embeddings.calls[j].path \in {"hash", "zero"}
                   /\ md5_hexdigest(embeddings.calls[j].text)
                          # md5_hexdigest(embeddings.calls[i].text))
                      => embeddings.calls[j].embedding
                             # embeddings.calls[i].embedding

C38_BatchMonotone ==
    [][/\ \A b \in DOMAIN batch_processors :
            LET old == batch_processors[b]
                new == batch_processors'[b]
            IN  /\ new.processed_documents \in
                       {old.processed_documents, old.processed_documents + 1}
                /\ new.processed_documents <= new.total_documents
                /\ new.total_documents = old.total_documents
                /\ new.progress_percentage[1] * old.progress_percentage[2]
                       >= old.progress_percentage[1] * new.progress_percentage[2]
                /\ \A c \in DOMAIN batch_processors :
                       (c # b /\ new # old)
                           => batch_processors'[c] = batch_processors[c]
       /\ \A b \in DOMAIN batch_processors' :
            b \notin DOMAIN batch_processors
                => batch_processors'[b].processed_documents = 0
      ]_all_vars

\* Two batches of two documents are processing at once; the second has just
\* had its first document processed after the first had.
C38_Witness ==
    /\ Len(batch_processors) = 2
    /\ \A b \in {1, 2} :
          /\ batch_processors[b].status = "processing"
          /\ batch_processors[b].total_documents = 2
          /\ batch_processors[b].processed_documents = 1
    /\ last.op = "batch_task" /\ last.batch = 2

\* C39: in every state of every job, startedAt is set exactly when the
\* status is not PENDING, completedAt is set exactly when the status is
\* COMPLETED, FAILED or CANCELLED, finalScore is set only when the status is
\* COMPLETED, and errorMessage is set only when the status is FAILED.
C39_FieldsFollowStatus ==
    \A j \in DOMAIN jobs :
        /\ jobs[j].started_at <=> jobs[j].status # PENDING
        /\ jobs[j].completed_at
              <=> jobs[j].status \in {COMPLETED, FAILED, CANCELLED}
        /\ jobs[j].final_score # 0 => jobs[j].status = COMPLETED
        /\ jobs[j].error_message # "None" => jobs[j].status = FAILED

\* A job cancelled while its task slept in the second step, the cancellation
\* delivered: started and completed, no score, no error.
C39_Witness ==
    /\ Exists(1) /\ jobs[1].status = CANCELLED
    /\ task[1].pc = "cancelled" /\ task[1].step_num = 2
    /\ jobs[1].started_at /\ jobs[1].completed_at
    /\ jobs[1].final_score = 0
    /\ jobs[1].error_message = "None"

\* C40: for the OTP generated last for an identifier, verify_otp returns
\* true only if the submitted code is that OTP, the OTP has not expired, no
\* call has verified it before and fewer than 3 incorrect attempts preceded;
\* a successful verification, a call after the expiry and a call after 3
\* incorrect attempts delete the OTP, and no later call succeeds with it.
C40_VerifyOtp ==
    [][\A identifier \in Identifiers :
        /\ (/\ last'.op = "verify_otp"
            /\ last'.identifier = identifier
            /\ last'.ret = "true")
              => /\ otp_log[identifier].generated
                 /\ last'.otp = otp_log[identifier].otp
                 /\ utcnow <= otp_log[identifier].expires_at
                 /\ ~otp_log[identifier].verified
                 /\ otp_log[identifier].incorrect < 3
                 /\ ~otp_log[identifier].dead
        /\ otp_log'[identifier].dead => otp_storage'[identifier] = NoOtp
      ]_all_vars

\* After three incorrect attempts the right code was submitted in time: the
\* call returned false and the OTP is gone.
C40_Witness ==
    /\ last.op = "verify_otp" /\ last.ret = "false"
    /\ last.identifier = "admin@example.com"
    /\ last.otp = otp_log["admin@example.com"].otp
    /\ otp_log["admin@example.com"].incorrect = 3
    /\ otp_log["admin@example.com"].dead
    /\ utcnow <= otp_log["admin@example.com"].expires_at
    /\ otp_storage["admin@example.com"] = NoOtp

====
